---- MODULE Spec2Model ----
(***************************************************************************)
(* Frame delivery and session control of windows-capture's Python layer.   *)
(*                                                                         *)
(* The Python classes WindowsCapture, InternalCaptureControl and           *)
(* CaptureControl (windows_capture/__init__.py) are translated from their  *)
(* source.  The native engine they drive (NativeWindowsCapture,            *)
(* NativeCaptureControl) is not part of the Python sources; it is modelled *)
(* from the collaborator contract of the specification (sections 4.4, 4.6, *)
(* 5 and 6).                                                               *)
(*                                                                         *)
(* Two threads act: the consumer thread, which constructs the session,     *)
(* registers handlers and starts / controls the capture, and the producer  *)
(* thread of the engine, which calls on_frame_arrived and on_closed.  The  *)
(* Python entry points are split where they call into user callbacks, so   *)
(* that the begin and the return of every callback are separate steps.     *)
(***************************************************************************)
EXTENDS Integers, Sequences, FiniteSets, TLC

\* ---------------------------------------------------------------- bounds
MaxFrames == 2
MaxWidth == 2
MaxHeight == 1
MaxPad == 1
\* bounds of the frame operations
MaxW == 2
MaxH == 2
MaxPadBytes == 1
MaxOps == 3

\* ------------------------------------------------------------- constants
BytesPerPixel == 4

None == "None"
Handlers == {"h1", "h2"}
RoleNames == {"on_frame_arrived", "on_closed", "on_other"}
Selectors == {"monitor_index", "window_name", "window_hwnd"}
NoEngine == [created |-> FALSE, target |-> {}]
NoFrame == [width |-> 0, height |-> 0, buf_len |-> 0]

VARIABLES
    session,        \* lifecycle state of the capture session
    requested,      \* selectors given to WindowsCapture.__init__
    capture,        \* self.capture: the native engine and the target it got
    frame_handler,  \* self.frame_handler
    closed_handler, \* self.closed_handler
    stop_list,      \* the one-element list shared with InternalCaptureControl
    finished,       \* the engine's finished flag (is_finished)
    mode,           \* "none", "blocking" (start) or "detached"
    control,        \* TRUE once start_free_threaded returned a CaptureControl
    pcEngine,       \* position of the producer thread
    frame,          \* the raw frame on_frame_arrived is working on
    call,           \* which frame_handler call of on_frame_arrived is running
    pcUser,         \* position of the consumer thread
    lastOp,         \* the last consumer call and its outcome
    raised,         \* TRUE once an entry point raised into the engine
    frameCalls,     \* number of frame_handler invocations so far
    closedCalls,    \* number of closed_handler invocations so far
    closedReturned, \* TRUE once a closed_handler invocation has returned
    delivered,      \* number of raw frames handed to on_frame_arrived
    cbStopped,      \* TRUE once a frame callback called control.stop()
    extStopped,     \* TRUE once CaptureControl.stop() was called
    rawFrame,       \* the raw frame the engine passes to on_frame_arrived
    dxgi,           \* a DxgiDuplicationFrame: its _native and _numpy_cache
    handed,         \* the Frame on_frame_arrived builds for frame_handler
    ret,            \* the last frame operation and what it returned
    reads,          \* number of buffer_view() calls on the native frame
    noCopyReads,    \* those of them made by copy=False requests
    nOps            \* number of frame operations so far

vars == <<session, requested, capture, frame_handler, closed_handler,
          stop_list, finished, mode, control, pcEngine, frame, call, pcUser,
          lastOp, raised, frameCalls, closedCalls, closedReturned, delivered,
          cbStopped, extStopped, rawFrame, dxgi, handed, ret, reads,
          noCopyReads, nOps>>

handlerVars == <<frame_handler, closed_handler>>
configVars == <<requested, capture>>
engineVars == <<session, stop_list, finished, mode, pcEngine, frame, call>>
histVars == <<frameCalls, closedCalls, closedReturned, delivered, cbStopped>>
pixelVars == <<rawFrame, dxgi, handed, ret, reads, noCopyReads, nOps>>
sessionVars == <<session, requested, capture, frame_handler, closed_handler,
                 stop_list, finished, mode, control, pcEngine, frame, call,
                 pcUser, lastOp, raised, frameCalls, closedCalls,
                 closedReturned, delivered, cbStopped, extStopped>>

\* No pull-mode frame acquired, no push-mode Frame built, nothing returned.
NoCache == [set |-> FALSE, array |-> <<>>]
NoRawFrame == [buf |-> <<>>, buf_len |-> 0, width |-> 0, height |-> 0,
               timespan |-> 0]
NoDxgi == [native |-> [width |-> 0, height |-> 0, bytes_per_pixel |-> 0,
                       bytes_per_row |-> 0, color_format |-> "none",
                       buffer |-> <<>>],
           numpy_cache |-> NoCache]
NoFrameObject == [frame_buffer |-> <<>>, width |-> 0, height |-> 0,
                  timespan |-> 0]
NoReturn == [op |-> "none", copy |-> FALSE, args |-> <<>>, ok |-> FALSE,
             value |-> <<>>, alias |-> "none"]

SessionInit ==
    /\ session = "Unconstructed"
    /\ requested = {}
    /\ capture = NoEngine
    /\ frame_handler = None
    /\ closed_handler = None
    /\ stop_list = <<FALSE>>
    /\ finished = FALSE
    /\ mode = "none"
    /\ control = FALSE
    /\ pcEngine = "off"
    /\ frame = NoFrame
    /\ call = 0
    /\ pcUser = "free"
    /\ lastOp = [op |-> "none", name |-> "", handler |-> None,
                 result |-> "", tick |-> FALSE]
    /\ raised = FALSE
    /\ frameCalls = 0
    /\ closedCalls = 0
    /\ closedReturned = FALSE
    /\ delivered = 0
    /\ cbStopped = FALSE
    /\ extStopped = FALSE

Init ==
    /\ SessionInit
    /\ rawFrame = NoRawFrame
    /\ dxgi = NoDxgi
    /\ handed = NoFrameObject
    /\ ret = NoReturn
    /\ reads = 0
    /\ noCopyReads = 0
    /\ nOps = 0

\* The record a consumer call leaves behind; tick flips on every call.
Called(op, name, handler, result) ==
    lastOp' = [op |-> op, name |-> name, handler |-> handler,
               result |-> result, tick |-> ~lastOp.tick]

\* A consumer call that raises: the exception is the call's outcome.
Raise(op, name, handler, err) == Called(op, name, handler, err)

Constructed == session \notin {"Unconstructed", "ConstructFailed"}

\* Everything a failing or read-only consumer call leaves alone.
calleeVars == <<pixelVars, configVars, handlerVars, engineVars, histVars, control,
                pcUser, raised, extStopped>>

\* ------------------------------------------------- native engine: create
\* The engine accepts a configuration naming at most one capture target.
NativeWindowsCapture_accepts(target) == Cardinality(target) <= 1

\* ------------------------------------------------ WindowsCapture.__init__
\* Faulty variant of InitTarget: monitor_index is not cleared.
InitTarget_keep(sel) == sel

\* "Clear monitor_index if a window target is specified".
InitTarget(sel) ==
    IF "window_name" \in sel \/ "window_hwnd" \in sel
    THEN sel \ {"monitor_index"}
    ELSE sel

WindowsCapture_init(sel) ==
    /\ session = "Unconstructed"
    /\ pcUser = "free"
    /\ requested' = sel
    /\ frame_handler' = None
    /\ closed_handler' = None
    /\ IF NativeWindowsCapture_accepts(InitTarget(sel))
       THEN /\ capture' = [created |-> TRUE, target |-> InitTarget(sel)]
            /\ session' = "Configured"
            /\ Called("__init__", "", None, "ok")
       ELSE /\ capture' = NoEngine
            /\ session' = "ConstructFailed"
            /\ Raise("__init__", "", None, "ConfigError")
    /\ UNCHANGED <<pixelVars, stop_list, finished, mode, pcEngine, frame,
                   call, histVars, control, pcUser, raised, extStopped>>

\* --------------------------------------------------- WindowsCapture.event
\* Faulty variant of event: the on_closed branch assigns the frame callback too.
WindowsCapture_event_both(name, handler) ==
    /\ Constructed
    /\ pcUser = "free"
    /\ IF name = "on_frame_arrived"
       THEN /\ frame_handler' = handler
            /\ UNCHANGED closed_handler
            /\ Called("event", name, handler, "ok")
       ELSE IF name = "on_closed"
       THEN /\ closed_handler' = handler
            /\ frame_handler' = handler
            /\ Called("event", name, handler, "ok")
       ELSE /\ Raise("event", name, handler, "InvalidHandlerRole")
            /\ UNCHANGED handlerVars
    /\ UNCHANGED <<pixelVars, configVars, engineVars, histVars, control, pcUser,
                   raised, extStopped>>

WindowsCapture_event(name, handler) ==
    /\ Constructed
    /\ pcUser = "free"
    /\ IF name = "on_frame_arrived"
       THEN /\ frame_handler' = handler
            /\ UNCHANGED closed_handler
            /\ Called("event", name, handler, "ok")
       ELSE IF name = "on_closed"
       THEN /\ closed_handler' = handler
            /\ UNCHANGED frame_handler
            /\ Called("event", name, handler, "ok")
       ELSE /\ Raise("event", name, handler, "InvalidHandlerRole")
            /\ UNCHANGED handlerVars
    /\ UNCHANGED <<pixelVars, configVars, engineVars, histVars, control, pcUser,
                   raised, extStopped>>

\* ------------------------------------------- native engine: start, control
\* Faulty variant of the engine's start: a Closed session starts again.
NativeWindowsCapture_start_again ==
    IF session \in {"Configured", "Closed"}
    THEN /\ session' = "Running"
         /\ mode' = "blocking"
         /\ pcEngine' = "check"
         /\ pcUser' = "in_start"
         /\ finished' = FALSE
         /\ Called("start", "", None, "started")
         /\ UNCHANGED <<pixelVars, configVars, handlerVars, stop_list, frame, call,
                        histVars, control, raised, extStopped>>
    ELSE /\ Raise("start", "", None, "NotRestartable")
         /\ UNCHANGED calleeVars

\* A session starts from Configured only; there is no reentry.
NativeWindowsCapture_start ==
    IF session = "Configured"
    THEN /\ session' = "Running"
         /\ mode' = "blocking"
         /\ pcEngine' = "check"
         /\ pcUser' = "in_start"
         /\ Called("start", "", None, "started")
         /\ UNCHANGED <<pixelVars, configVars, handlerVars, stop_list, finished, frame,
                        call, histVars, control, raised, extStopped>>
    ELSE /\ Raise("start", "", None, "NotRestartable")
         /\ UNCHANGED calleeVars

\* start() blocks its caller until the session is Closed.
NativeWindowsCapture_start_return ==
    /\ pcUser = "in_start"
    /\ finished
    /\ pcUser' = "free"
    /\ lastOp' = [lastOp EXCEPT !.result = "returned"]
    /\ UNCHANGED <<pixelVars, configVars, handlerVars, engineVars, histVars, control,
                   raised, extStopped>>

NativeWindowsCapture_start_free_threaded ==
    IF session = "Configured"
    THEN /\ session' = "Running"
         /\ mode' = "detached"
         /\ pcEngine' = "check"
         /\ control' = TRUE
         /\ Called("start_free_threaded", "", None, "started")
         /\ UNCHANGED <<pixelVars, configVars, handlerVars, stop_list, finished, frame,
                        call, histVars, pcUser, raised, extStopped>>
    ELSE /\ Raise("start_free_threaded", "", None, "NotRestartable")
         /\ UNCHANGED calleeVars

NativeCaptureControl_is_finished ==
    /\ Called("is_finished", "", None, IF finished THEN "True" ELSE "False")
    /\ UNCHANGED calleeVars

NativeCaptureControl_wait ==
    /\ pcUser' = "in_wait"
    /\ Called("wait", "", None, "called")
    /\ UNCHANGED <<pixelVars, configVars, handlerVars, engineVars, histVars, control,
                   raised, extStopped>>

NativeCaptureControl_wait_return ==
    /\ pcUser = "in_wait"
    /\ finished
    /\ pcUser' = "free"
    /\ lastOp' = [lastOp EXCEPT !.result = "returned"]
    /\ UNCHANGED <<pixelVars, configVars, handlerVars, engineVars, histVars, control,
                   raised, extStopped>>

\* stop() = request_stop() followed by wait().
NativeCaptureControl_stop ==
    /\ stop_list' = [stop_list EXCEPT ![1] = TRUE]
    /\ extStopped' = TRUE
    /\ pcUser' = "in_stop"
    /\ Called("stop", "", None, "called")
    /\ UNCHANGED <<pixelVars, configVars, handlerVars, session, finished, mode,
                   pcEngine, frame, call, histVars, control, raised>>

NativeCaptureControl_stop_return ==
    /\ pcUser = "in_stop"
    /\ finished
    /\ pcUser' = "free"
    /\ lastOp' = [lastOp EXCEPT !.result = "returned"]
    /\ UNCHANGED <<pixelVars, configVars, handlerVars, engineVars, histVars, control,
                   raised, extStopped>>

\* --------------------------------- WindowsCapture.start, start_free_threaded
\* Faulty variant of start: the closed_handler check is missing.
WindowsCapture_start_frame_only ==
    /\ Constructed
    /\ pcUser = "free"
    /\ IF frame_handler = None
       THEN /\ Raise("start", "", None, "HandlerNotSet")
            /\ UNCHANGED calleeVars
       ELSE NativeWindowsCapture_start

WindowsCapture_start ==
    /\ Constructed
    /\ pcUser = "free"
    /\ IF frame_handler = None
       THEN /\ Raise("start", "", None, "HandlerNotSet")
            /\ UNCHANGED calleeVars
       ELSE IF closed_handler = None
       THEN /\ Raise("start", "", None, "HandlerNotSet")
            /\ UNCHANGED calleeVars
       ELSE NativeWindowsCapture_start

\* Faulty variant of start_free_threaded: the handler checks are missing.
WindowsCapture_start_free_threaded_unchecked ==
    /\ Constructed
    /\ pcUser = "free"
    /\ NativeWindowsCapture_start_free_threaded

WindowsCapture_start_free_threaded ==
    /\ Constructed
    /\ pcUser = "free"
    /\ IF frame_handler = None
       THEN /\ Raise("start_free_threaded", "", None, "HandlerNotSet")
            /\ UNCHANGED calleeVars
       ELSE IF closed_handler = None
       THEN /\ Raise("start_free_threaded", "", None, "HandlerNotSet")
            /\ UNCHANGED calleeVars
       ELSE NativeWindowsCapture_start_free_threaded

\* ----------------------------------------------------------- CaptureControl
CaptureControl_is_finished ==
    /\ control
    /\ pcUser = "free"
    /\ NativeCaptureControl_is_finished

CaptureControl_wait ==
    /\ control
    /\ pcUser = "free"
    /\ NativeCaptureControl_wait

\* Faulty variant of CaptureControl.stop: the stop is requested but not waited for.
CaptureControl_stop_nowait ==
    /\ control
    /\ pcUser = "free"
    /\ stop_list' = [stop_list EXCEPT ![1] = TRUE]
    /\ extStopped' = TRUE
    /\ Called("stop", "", None, "returned")
    /\ UNCHANGED <<pixelVars, configVars, handlerVars, session, finished, mode,
                   pcEngine, frame, call, histVars, control, pcUser, raised>>

CaptureControl_stop ==
    /\ control
    /\ pcUser = "free"
    /\ NativeCaptureControl_stop

\* --------------------------------------------------- InternalCaptureControl
\* Faulty variant of InternalCaptureControl.stop: the flag is flipped.
InternalCaptureControl_stop_toggle(list) == [list EXCEPT ![1] = ~list[1]]

\* Faulty variant of InternalCaptureControl.stop: the shared list is left as it is
\* (the attribute is rebound to a new list instead of being written to).
InternalCaptureControl_stop_lost(list) == list

\* self._stop_list[0] = True (Python index 0 is index 1 of the sequence).
InternalCaptureControl_stop(list) == [list EXCEPT ![1] = TRUE]

\* ------------------------------------------ WindowsCapture.on_frame_arrived
\* row_pitch = int(buf_len / height)
RowPitch(buf_len, height) == buf_len \div height

\* How many times on_frame_arrived calls frame_handler for one raw frame.
FrameHandlerCalls(buf_len, width, height) ==
    IF RowPitch(buf_len, height) = width * BytesPerPixel THEN 1 ELSE 2

\* --------------------------------------------------- numpy, as the code uses it
\* An ndarray of shape (height, width, channels) is a sequence of rows, a
\* row a sequence of pixels, a pixel a sequence of elements; an element is
\* a byte (uint8) or the 16 bits of a half float (float16).
Min(a, b) == IF a < b THEN a ELSE b
Max(a, b) == IF a > b THEN a ELSE b

ValueError == [ok |-> FALSE, value |-> <<>>]
Ok(value) == [ok |-> TRUE, value |-> value]

\* buffer.reshape(height, row): row-major rows of a flat buffer.
Rows2D(buf, height, row) ==
    [r \in 1..height |-> SubSeq(buf, (r - 1) * row + 1, r * row)]

\* rows[:, :n]: a slice end beyond the row's length is clipped.
Columns(rows, n) ==
    [r \in 1..Len(rows) |-> SubSeq(rows[r], 1, Min(n, Len(rows[r])))]

\* The elements of a 2-D array in row-major order.
RECURSIVE Flat(_)
Flat(rows) == IF rows = <<>> THEN <<>> ELSE Head(rows) \o Flat(Tail(rows))

\* rows.reshape(height, width, channels): the element count must fit.
Reshape3(rows, height, width, channels) ==
    LET flat == Flat(rows) IN
    IF Len(flat) # height * width * channels
    THEN ValueError
    ELSE Ok([r \in 1..height |-> [c \in 1..width |-> [k \in 1..channels |->
                flat[((r - 1) * width + (c - 1)) * channels + k]]]])

\* rows.view(numpy.float16): little-endian byte pairs of each row; the row
\* length in bytes must be even.
ViewFloat16(rows) ==
    IF \E r \in 1..Len(rows) : Len(rows[r]) % 2 # 0
    THEN ValueError
    ELSE Ok([r \in 1..Len(rows) |-> [e \in 1..(Len(rows[r]) \div 2) |->
                rows[r][2 * e - 1] + 256 * rows[r][2 * e]]])

\* seq[a:b] with Python's rules for negative and out-of-range bounds.
PyIndex(i, n) == IF i < 0 THEN Max(i + n, 0) ELSE Min(i, n)
PySlice(seq, a, b) ==
    SubSeq(seq, PyIndex(a, Len(seq)) + 1, PyIndex(b, Len(seq)))

\* array[..., idx]: the channels idx of every pixel, in that order.
Channels(array, idx) ==
    [r \in 1..Len(array) |-> [c \in 1..Len(array[r]) |->
        [k \in 1..Len(idx) |-> array[r][c][idx[k]]]]]

\* ------------------------------- WindowsCapture.on_frame_arrived: the array
\* Faulty variant of StripPad: the rows keep their pad bytes.
StripPad_keep(rows, width, bpp) == rows

\* [:, : width * bytes_per_pixel]
StripPad(rows, width, bpp) == Columns(rows, width * bpp)

\* numpy.ctypeslib.as_array(pointer, shape=(height, width, channels)): the
\* first height*width*channels bytes behind the pointer, row-major.
AsArray3(buf, height, width, channels) ==
    [r \in 1..height |-> [c \in 1..width |-> [k \in 1..channels |->
        buf[((r - 1) * width + (c - 1)) * channels + k]]]]

\* Faulty variant of OnFrameArrivedArray: the buffer is always taken as
\* contiguous, whatever its row pitch (bytes behind its end read as 0).
OnFrameArrivedArray_contiguous(buf, buf_len, width, height) ==
    Ok(AsArray3([i \in 1..(height * width * BytesPerPixel) |->
                    IF i <= Len(buf) THEN buf[i] ELSE 0],
                height, width, BytesPerPixel))

\* The ndarray on_frame_arrived builds from the raw buffer.
OnFrameArrivedArray(buf, buf_len, width, height) ==
    IF RowPitch(buf_len, height) = width * BytesPerPixel
    THEN Ok(AsArray3(buf, height, width, BytesPerPixel))
    ELSE Reshape3(StripPad(Rows2D(buf, height, RowPitch(buf_len, height)),
                           width, BytesPerPixel),
                  height, width, BytesPerPixel)

\* The bytes of a raw buffer of the given length: byte i is base + i*step.
RawBuffer(len, base, step) == [i \in 1..len |-> (base + (i - 1) * step) % 256]

\* Frame(frame_buffer, width, height, timespan)
Frame(frame_buffer, width, height, timespan) ==
    [frame_buffer |-> frame_buffer, width |-> width, height |-> height,
     timespan |-> timespan]

\* Entry of on_frame_arrived up to its first call of frame_handler.
WindowsCapture_on_frame_arrived(buf_len, width, height) ==
    /\ frame' = [width |-> width, height |-> height, buf_len |-> buf_len]
    /\ delivered' = delivered + 1
    /\ IF /\ frame_handler # None
          /\ OnFrameArrivedArray(RawBuffer(buf_len, 0, 1), buf_len, width,
                                 height).ok
       THEN /\ pcEngine' = "in_frame_handler"
            /\ call' = 1
            /\ frameCalls' = frameCalls + 1
            /\ UNCHANGED <<session, raised>>
       ELSE \* the reshape raises ValueError, or
            \* raise Exception("on_frame_arrived Event Handler Is Not Set")
            /\ pcEngine' = "stopping"
            /\ session' = "Stopping"
            /\ call' = 0
            /\ raised' = TRUE
            /\ UNCHANGED frameCalls
    /\ UNCHANGED <<pixelVars, configVars, handlerVars, stop_list, finished, mode,
                   control, pcUser, lastOp, closedCalls, closedReturned,
                   cbStopped, extStopped>>

\* The running frame callback calls internal_capture_control.stop().
FrameHandler_stop ==
    /\ pcEngine = "in_frame_handler"
    /\ stop_list' = InternalCaptureControl_stop(stop_list)
    /\ cbStopped' = TRUE
    /\ UNCHANGED <<pixelVars, configVars, handlerVars, session, finished, mode, control,
                   pcEngine, frame, call, pcUser, lastOp, raised, frameCalls,
                   closedCalls, closedReturned, delivered, extStopped>>

\* A frame_handler call returns: on_frame_arrived calls the handler again
\* or returns to the engine, which is then at its stop-flag checkpoint.
WindowsCapture_on_frame_arrived_resume ==
    /\ pcEngine = "in_frame_handler"
    /\ IF call < FrameHandlerCalls(frame.buf_len, frame.width, frame.height)
       THEN /\ call' = call + 1
            /\ frameCalls' = frameCalls + 1
            /\ UNCHANGED <<pcEngine, frame>>
       ELSE /\ call' = 0
            /\ frame' = NoFrame
            /\ pcEngine' = "check"
            /\ UNCHANGED frameCalls
    /\ UNCHANGED <<pixelVars, configVars, handlerVars, session, stop_list, finished,
                   mode, control, pcUser, lastOp, raised, closedCalls,
                   closedReturned, delivered, cbStopped, extStopped>>

\* ------------------------------------------------- WindowsCapture.on_closed
\* Faulty variant of on_closed: closed_handler is called twice.
WindowsCapture_on_closed_twice ==
    /\ pcEngine = "stopping"
    /\ pcEngine' = "in_closed_handler"
    /\ closedCalls' = closedCalls + 2
    /\ UNCHANGED <<pixelVars, configVars, handlerVars, session, stop_list, finished,
                   mode, control, frame, call, pcUser, lastOp, raised,
                   frameCalls, closedReturned, delivered, cbStopped,
                   extStopped>>

\* Faulty variant of on_closed: it returns without calling closed_handler.
WindowsCapture_on_closed_skip ==
    /\ pcEngine = "stopping"
    /\ pcEngine' = "closing"
    /\ UNCHANGED <<pixelVars, configVars, handlerVars, session, stop_list, finished,
                   mode, control, frame, call, pcUser, lastOp, raised,
                   frameCalls, closedCalls, closedReturned, delivered,
                   cbStopped, extStopped>>

WindowsCapture_on_closed ==
    /\ pcEngine = "stopping"
    /\ IF closed_handler # None
       THEN /\ pcEngine' = "in_closed_handler"
            /\ closedCalls' = closedCalls + 1
            /\ UNCHANGED raised
       ELSE \* raise Exception("on_closed Event Handler Is Not Set")
            /\ pcEngine' = "closing"
            /\ raised' = TRUE
            /\ UNCHANGED closedCalls
    /\ UNCHANGED <<pixelVars, configVars, handlerVars, session, stop_list, finished,
                   mode, control, frame, call, pcUser, lastOp, frameCalls,
                   closedReturned, delivered, cbStopped, extStopped>>

ClosedHandler_return ==
    /\ pcEngine = "in_closed_handler"
    /\ pcEngine' = "closing"
    /\ closedReturned' = TRUE
    /\ UNCHANGED <<pixelVars, configVars, handlerVars, session, stop_list, finished,
                   mode, control, frame, call, pcUser, lastOp, raised,
                   frameCalls, closedCalls, delivered, cbStopped, extStopped>>

\* ------------------------------------------- native engine: producer thread
\* The checkpoint after a delivery (and between frames): observe the flag.
Engine_check ==
    /\ pcEngine = "check"
    /\ IF stop_list[1]
       THEN /\ pcEngine' = "stopping"
            /\ session' = "Stopping"
       ELSE /\ pcEngine' = "ready"
            /\ UNCHANGED session
    /\ UNCHANGED <<pixelVars, configVars, handlerVars, stop_list, finished, mode,
                   control, frame, call, pcUser, lastOp, raised, histVars,
                   extStopped>>

\* Nothing changed on screen: no frame this round.
Engine_no_frame ==
    /\ pcEngine = "ready"
    /\ pcEngine' = "check"
    /\ UNCHANGED <<pixelVars, configVars, handlerVars, session, stop_list, finished,
                   mode, control, frame, call, pcUser, lastOp, raised,
                   histVars, extStopped>>

\* A raw frame: height rows of width*4 pixel bytes plus pad bytes each.
Engine_frame ==
    /\ pcEngine = "ready"
    /\ delivered < MaxFrames
    /\ \E width \in 1..MaxWidth, height \in 1..MaxHeight, pad \in 0..MaxPad :
         WindowsCapture_on_frame_arrived(
             height * (width * BytesPerPixel + pad), width, height)

\* The engine ends the capture on its own (the captured window is gone).
Engine_end ==
    /\ pcEngine = "ready"
    /\ pcEngine' = "stopping"
    /\ session' = "Stopping"
    /\ UNCHANGED <<pixelVars, configVars, handlerVars, stop_list, finished, mode,
                   control, frame, call, pcUser, lastOp, raised, histVars,
                   extStopped>>

\* After on_closed has returned: finished is set and the session is Closed.
Engine_finish ==
    /\ pcEngine = "closing"
    /\ pcEngine' = "off"
    /\ session' = "Closed"
    /\ finished' = TRUE
    /\ UNCHANGED <<pixelVars, configVars, handlerVars, stop_list, mode, control, frame,
                   call, pcUser, lastOp, raised, histVars, extStopped>>

\* ------------------------------------------------------------------- Frame
\* A method of a frame object yields the object as the call leaves it
\* (self) and what the call returns (ret).

\* Faulty variant of Frame_convert_to_bgr: the conversion is done in place,
\* on the source's own frame_buffer.
Frame_convert_to_bgr_inplace(self) ==
    LET bgr == Frame([r \in 1..Len(self.frame_buffer) |->
                        [c \in 1..Len(self.frame_buffer[r]) |->
                            PySlice(self.frame_buffer[r][c], 0, 3)]],
                     self.width, self.height, self.timespan)
    IN  [self |-> bgr, ret |-> bgr]

\* self.frame_buffer[:, :, :3]
Frame_convert_to_bgr(self) ==
    [self |-> self,
     ret |-> Frame([r \in 1..Len(self.frame_buffer) |->
                      [c \in 1..Len(self.frame_buffer[r]) |->
                          PySlice(self.frame_buffer[r][c], 0, 3)]],
                   self.width, self.height, self.timespan)]

\* Faulty variant of Frame_crop: the two axes are taken for each other
\* (frame_buffer[start_width:end_width, start_height:end_height, :]).
Frame_crop_swapped(self, start_width, start_height, end_width, end_height) ==
    LET rows == PySlice(self.frame_buffer, start_width, end_width) IN
    [self |-> self,
     ret |-> Frame([r \in 1..Len(rows) |->
                      PySlice(rows[r], start_height, end_height)],
                   end_width - start_width, end_height - start_height,
                   self.timespan)]

\* self.frame_buffer[start_height:end_height, start_width:end_width, :]
Frame_crop(self, start_width, start_height, end_width, end_height) ==
    LET rows == PySlice(self.frame_buffer, start_height, end_height) IN
    [self |-> self,
     ret |-> Frame([r \in 1..Len(rows) |->
                      PySlice(rows[r], start_width, end_width)],
                   end_width - start_width, end_height - start_height,
                   self.timespan)]

\* ---------------------------------------------------- DxgiDuplicationFrame
\* DxgiDuplicationFrame(native_frame)
DxgiDuplicationFrame(native_frame) ==
    [native |-> native_frame, numpy_cache |-> NoCache]

\* numpy.frombuffer(buffer_view()).reshape(height, bytes_per_row)
Dxgi_raw_buffer(self) ==
    Rows2D(self.native.buffer, self.native.height,
           self.native.bytes_per_row)

\* What to_numpy computes from the native buffer when it does not answer
\* from the cache.  (view(float16) of the stripped rows needs a numpy that
\* accepts a view of rows contiguous in their last axis.)
Dxgi_frame_array(self) ==
    LET raw == StripPad(Dxgi_raw_buffer(self), self.native.width,
                        self.native.bytes_per_pixel)
        viewed == IF self.native.color_format = "rgba16f"
                  THEN ViewFloat16(raw)
                  ELSE Ok(raw)
    IN  IF viewed.ok
        THEN Reshape3(viewed.value, self.native.height, self.native.width, 4)
        ELSE viewed

\* Faulty variant of Dxgi_to_numpy: the array of a no-copy request is never
\* stored.
Dxgi_to_numpy_uncached(self, copy) ==
    IF self.numpy_cache.set /\ ~copy
    THEN [self |-> self, ret |-> Ok(self.numpy_cache.array),
          alias |-> "cache", reads |-> 0]
    ELSE [self |-> self, ret |-> Dxgi_frame_array(self),
          alias |-> IF Dxgi_frame_array(self).ok THEN "own" ELSE "none",
          reads |-> 1]

\* to_numpy(copy): reads counts the buffer_view() calls it makes; alias says
\* whether the returned object is the cached array ("cache"), a view of it
\* ("view") or memory of its own ("own").
Dxgi_to_numpy(self, copy) ==
    IF self.numpy_cache.set /\ ~copy
    THEN [self |-> self, ret |-> Ok(self.numpy_cache.array),
          alias |-> "cache", reads |-> 0]
    ELSE LET array == Dxgi_frame_array(self) IN
         IF ~array.ok
         THEN [self |-> self, ret |-> array, alias |-> "none", reads |-> 1]
         ELSE IF copy
         THEN [self |-> self, ret |-> array, alias |-> "own", reads |-> 1]
         ELSE [self |-> [self EXCEPT !.numpy_cache =
                                   [set |-> TRUE, array |-> array.value]],
               ret |-> array, alias |-> "cache", reads |-> 1]

\* Faulty variant of ChannelsDownFrom: the slice keeps the source order
\* (image[..., :3]).
ChannelsDownFrom_up(array, start) ==
    [r \in 1..Len(array) |-> [c \in 1..Len(array[r]) |->
        [k \in 1..(start + 1) |-> array[r][c][k]]]]

\* image[..., 2::-1]: channels 2, 1, 0 of every pixel.
ChannelsDownFrom(array, start) ==
    [r \in 1..Len(array) |-> [c \in 1..Len(array[r]) |->
        [k \in 1..(start + 1) |-> array[r][c][start + 2 - k]]]]

\* One float16 component, given by its 16 bits, clipped to [0, 1], scaled
\* by 255 and cast to uint8 (the cast truncates).  The product is exact in
\* float32.  A NaN has no defined cast and no frame drawn here holds one.
HalfToByte(bits) ==
    LET sign == bits \div 32768
        e == (bits \div 1024) % 32
        m == bits % 1024
    IN  CASE sign = 1 /\ (e < 31 \/ m = 0) -> 0
          [] sign = 0 /\ e = 0 -> 0
          [] sign = 0 /\ e >= 15 /\ (e < 31 \/ m = 0) -> 255
          [] sign = 0 /\ e >= 1 /\ e <= 14 ->
                 ((1024 + m) * 255) \div (2 ^ (25 - e))

\* to_bgr(copy)
Dxgi_to_bgr(self, copy) ==
    LET r == Dxgi_to_numpy(self, copy)
        image == r.ret.value
    IN  IF ~r.ret.ok
        THEN r
        ELSE IF self.native.color_format = "bgra8"
        THEN [self |-> r.self,
              ret |-> Ok([y \in 1..Len(image) |-> [x \in 1..Len(image[y]) |->
                            PySlice(image[y][x], 0, 3)]]),
              alias |-> IF copy THEN "own" ELSE "view", reads |-> r.reads]
        ELSE IF self.native.color_format = "rgba8"
        THEN [self |-> r.self,
              ret |-> IF ~copy
                      THEN Ok(ChannelsDownFrom(image, 2))
                      ELSE Ok(Channels(image, <<3, 2, 1>>)),
              alias |-> IF copy THEN "own" ELSE "view", reads |-> r.reads]
        ELSE [self |-> r.self,
              ret |-> Ok([y \in 1..Len(image) |-> [x \in 1..Len(image[y]) |->
                            [k \in 1..3 |-> HalfToByte(image[y][x][4 - k])]]]),
              alias |-> "own", reads |-> r.reads]

\* to_bytes(): bytes(self._raw_buffer())
Dxgi_to_bytes(self) ==
    [self |-> self, ret |-> Ok(Flat(Dxgi_raw_buffer(self))),
     alias |-> "own", reads |-> 1]

\* ------------------------------------------------- frames and frame calls
ColorFormats == {"bgra8", "rgba8", "rgba16f"}
FormatBytesPerPixel(color_format) ==
    IF color_format = "rgba16f" THEN 2 * BytesPerPixel ELSE BytesPerPixel
Timespans == {7, 11}
\* Buffer contents: <<first byte, step>>; every byte of a buffer differs.
Patterns == {<<40, 1>>, <<130, 1>>}

\* A native frame of width x height pixels whose rows are pad bytes longer
\* than width * bytes_per_pixel (pad < 0: shorter, a broken stride).
NativeFrame(width, height, color_format, pad, pattern) ==
    LET bpp == FormatBytesPerPixel(color_format)
        row == width * bpp + pad
    IN  [width |-> width, height |-> height, bytes_per_pixel |-> bpp,
         bytes_per_row |-> row, color_format |-> color_format,
         buffer |-> RawBuffer(height * row, pattern[1], pattern[2])]

Returned(op, copy, args, r) ==
    [op |-> op, copy |-> copy, args |-> args, ok |-> r.ret.ok,
     value |-> r.ret.value, alias |-> r.alias]

\* on_frame_arrived builds the Frame it hands to frame_handler.
Push_on_frame_arrived ==
    /\ rawFrame # NoRawFrame
    /\ handed = NoFrameObject
    /\ nOps < MaxOps
    /\ nOps' = nOps + 1
    /\ LET ndarray == OnFrameArrivedArray(rawFrame.buf, rawFrame.buf_len,
                                          rawFrame.width, rawFrame.height)
       IN  /\ handed' = IF ndarray.ok
                        THEN Frame(ndarray.value, rawFrame.width,
                                   rawFrame.height, rawFrame.timespan)
                        ELSE NoFrameObject
           /\ ret' = [op |-> "on_frame_arrived", copy |-> FALSE,
                      args |-> <<>>, ok |-> ndarray.ok, value |-> <<>>,
                      alias |-> "none"]
    /\ UNCHANGED <<sessionVars, rawFrame, dxgi, reads, noCopyReads>>

Call_convert_to_bgr ==
    /\ handed # NoFrameObject
    /\ nOps < MaxOps
    /\ nOps' = nOps + 1
    /\ LET r == Frame_convert_to_bgr(handed)
       IN  /\ handed' = r.self
           /\ ret' = [op |-> "convert_to_bgr", copy |-> FALSE, args |-> <<>>,
                      ok |-> TRUE, value |-> r.ret, alias |-> "view"]
    /\ UNCHANGED <<sessionVars, rawFrame, dxgi, reads, noCopyReads>>

Call_crop ==
    /\ handed # NoFrameObject
    /\ nOps < MaxOps
    /\ nOps' = nOps + 1
    /\ \E x0 \in (-1)..handed.width, x1 \in 0..(handed.width + 1),
          y0 \in (-1)..handed.height, y1 \in 0..(handed.height + 1) :
         LET r == Frame_crop(handed, x0, y0, x1, y1)
         IN  /\ handed' = r.self
             /\ ret' = [op |-> "crop", copy |-> FALSE,
                        args |-> <<x0, y0, x1, y1>>, ok |-> TRUE,
                        value |-> r.ret, alias |-> "view"]
    /\ UNCHANGED <<sessionVars, rawFrame, dxgi, reads, noCopyReads>>

Call_to_numpy ==
    /\ dxgi # NoDxgi
    /\ nOps < MaxOps
    /\ nOps' = nOps + 1
    /\ \E copy \in BOOLEAN :
         LET r == Dxgi_to_numpy(dxgi, copy)
         IN  /\ dxgi' = r.self
             /\ ret' = Returned("to_numpy", copy, <<>>, r)
             /\ reads' = reads + r.reads
             /\ noCopyReads' = noCopyReads + (IF copy THEN 0 ELSE r.reads)
    /\ UNCHANGED <<sessionVars, rawFrame, handed>>

Call_to_bgr ==
    /\ dxgi # NoDxgi
    /\ nOps < MaxOps
    /\ nOps' = nOps + 1
    /\ \E copy \in BOOLEAN :
         LET r == Dxgi_to_bgr(dxgi, copy)
         IN  /\ dxgi' = r.self
             /\ ret' = Returned("to_bgr", copy, <<>>, r)
             /\ reads' = reads + r.reads
             /\ noCopyReads' = noCopyReads + (IF copy THEN 0 ELSE r.reads)
    /\ UNCHANGED <<sessionVars, rawFrame, handed>>

Call_to_bytes ==
    /\ dxgi # NoDxgi
    /\ nOps < MaxOps
    /\ nOps' = nOps + 1
    /\ LET r == Dxgi_to_bytes(dxgi)
       IN  /\ dxgi' = r.self
           /\ ret' = Returned("to_bytes", FALSE, <<>>, r)
           /\ reads' = reads + r.reads
    /\ UNCHANGED <<sessionVars, rawFrame, handed, noCopyReads>>

\* ------------------------------------------------------------ specification
Consumer ==
    \/ \E sel \in SUBSET Selectors : WindowsCapture_init(sel)
    \/ \E name \in RoleNames, handler \in Handlers :
         WindowsCapture_event(name, handler)
    \/ WindowsCapture_start
    \/ NativeWindowsCapture_start_return
    \/ WindowsCapture_start_free_threaded
    \/ CaptureControl_is_finished
    \/ CaptureControl_wait
    \/ NativeCaptureControl_wait_return
    \/ CaptureControl_stop
    \/ NativeCaptureControl_stop_return

Producer ==
    \/ Engine_check
    \/ Engine_no_frame
    \/ Engine_frame
    \/ FrameHandler_stop
    \/ WindowsCapture_on_frame_arrived_resume
    \/ Engine_end
    \/ WindowsCapture_on_closed
    \/ ClosedHandler_return
    \/ Engine_finish

Next == Consumer \/ Producer

Spec == Init /\ [][Next]_vars

\* The producer thread is scheduled fairly and callbacks return.
FairSpec == Spec /\ WF_vars(Producer)

\* The frame operations on their own: a raw push-mode frame or an acquired
\* pull-mode frame, drawn from the bounded frames, and calls on it.
RawFrames ==
    {[buf |-> n.buffer, buf_len |-> Len(n.buffer), width |-> n.width,
      height |-> n.height, timespan |-> t] :
        n \in {NativeFrame(w, h, "bgra8", pad, pat) :
                 w \in 1..MaxW, h \in 1..MaxH, pad \in (-2)..MaxPadBytes,
                 pat \in Patterns},
        t \in Timespans}

DxgiFrames ==
    {DxgiDuplicationFrame(NativeFrame(w, h, f, pad, pat)) :
        w \in 1..MaxW, h \in 1..MaxH, f \in ColorFormats,
        pad \in (-2)..MaxPadBytes, pat \in Patterns}

PixelInit ==
    /\ SessionInit
    /\ \/ rawFrame \in RawFrames /\ dxgi = NoDxgi
       \/ rawFrame = NoRawFrame /\ dxgi \in DxgiFrames
    /\ handed = NoFrameObject
    /\ ret = NoReturn
    /\ reads = 0
    /\ noCopyReads = 0
    /\ nOps = 0

PixelNext ==
    \/ Push_on_frame_arrived
    \/ Call_convert_to_bgr
    \/ Call_crop
    \/ Call_to_numpy
    \/ Call_to_bgr
    \/ Call_to_bytes

PixelSpec == PixelInit /\ [][PixelNext]_vars

\* ------------------------------------------------------------------ claims
\* A consumer call was made in this step.
CallStep(op) == lastOp'.tick # lastOp.tick /\ lastOp'.op = op

\* on_frame_arrived is not in progress.
BetweenFrames == pcEngine # "in_frame_handler"

\* C1: every raw frame handed to on_frame_arrived yields exactly one
\* invocation of the frame callback, for equal and for padded row strides:
\* whenever no delivery is in progress, as many invocations as frames.
C1_OneCallPerFrame == BetweenFrames => frameCalls = delivered

\* C2: once the frame callback has requested stop through its control
\* object, the frame callback is never invoked again, neither for the frame
\* being delivered nor for a later one.
C2_NoCallAfterCallbackStop == [][cbStopped => frameCalls' = frameCalls]_vars

\* C3: in every run the closed callback is invoked exactly once: never
\* twice, not before the run ends, and a Closed session has seen exactly one
\* invocation, which has returned.
C3_ClosedExactlyOnce ==
    /\ closedCalls <= 1
    /\ session \in {"Unconstructed", "ConstructFailed", "Configured",
                    "Running"} => closedCalls = 0
    /\ session = "Closed" => closedCalls = 1 /\ closedReturned

\* C3 witness: a run the engine ended on its own, after delivering frames.
C3_Witness ==
    /\ session = "Closed"
    /\ closedCalls = 1
    /\ ~stop_list[1]
    /\ delivered > 0

\* C4: once stop has been requested, from inside the frame callback or
\* through the detached handle, the session eventually is Closed and
\* is_finished() is true (producer scheduled fairly, callbacks return).
C4_StopLeadsToClosed ==
    (cbStopped \/ extStopped) ~> (session = "Closed" /\ finished)

\* C4 witness: stop requested inside the callback, is_finished() seen true.
C4_Witness ==
    /\ cbStopped
    /\ ~extStopped
    /\ lastOp.op = "is_finished"
    /\ lastOp.result = "True"

\* C5: the closed callback starts only after the last frame callback has
\* returned, no frame callback follows it, and is_finished() is true (and
\* wait() returns) only after the closed callback has returned.
C5_Ordering ==
    /\ [](closedCalls > 0 => BetweenFrames)
    /\ [][closedCalls' > 0 => frameCalls' = frameCalls]_vars
    /\ [](finished => closedReturned)
    /\ [](lastOp.op = "wait" /\ lastOp.result = "returned" => closedReturned)

\* C5 witness: wait() has returned after a run that delivered frames.
C5_Witness ==
    /\ lastOp.op = "wait"
    /\ lastOp.result = "returned"
    /\ frameCalls > 0
    /\ closedReturned

\* C6: start() and start_free_threaded() raise HandlerNotSet whenever a
\* callback is missing, without starting the engine and leaving the session
\* Configured; with both callbacks registered a Configured session starts.
C6_StartNeedsHandlers ==
    [][CallStep("start") \/ CallStep("start_free_threaded") =>
        IF frame_handler = None \/ closed_handler = None
        THEN /\ lastOp'.result = "HandlerNotSet"
             /\ session = "Configured" /\ session' = "Configured"
             /\ pcEngine' = "off" /\ mode' = "none"
             /\ UNCHANGED <<control, pcUser, capture, handlerVars>>
        ELSE session = "Configured" =>
             /\ lastOp'.result = "started"
             /\ session' = "Running"
             /\ pcEngine' = "check"]_vars

\* C6 witness: start with only the frame callback registered has failed.
C6_Witness ==
    /\ lastOp.op = "start"
    /\ lastOp.result = "HandlerNotSet"
    /\ frame_handler # None
    /\ closed_handler = None
    /\ session = "Configured"

\* C7 as stated: more than one selector among monitor index, window name
\* and window handle fails at construction and creates no engine.
C7_MultiSelectorRejected ==
    Cardinality(requested) > 1 =>
        session = "ConstructFailed" /\ ~capture.created

\* C7 amended: window name together with window handle fails at
\* construction and creates no engine; a monitor index given with exactly
\* one window selector is dropped and the engine is created for the window.
C7_WindowTargetWins ==
    /\ {"window_name", "window_hwnd"} \subseteq requested =>
           session = "ConstructFailed" /\ ~capture.created
    /\ /\ "monitor_index" \in requested
       /\ Cardinality(requested \cap {"window_name", "window_hwnd"}) = 1
       => /\ session # "ConstructFailed"
          /\ capture.created
          /\ capture.target = requested \ {"monitor_index"}

\* C7 witness: a session built with monitor index and window name runs.
C7_Witness ==
    /\ requested = {"monitor_index", "window_name"}
    /\ capture.target = {"window_name"}
    /\ session = "Running"

\* C8: no reentry: once Closed, a further start() or start_free_threaded()
\* starts no second run: the session stays Closed, the producer stays off
\* and neither callback fires again.
C8_NoReentry ==
    [][session = "Closed" =>
        /\ session' = "Closed"
        /\ pcEngine' = "off"
        /\ frameCalls' = frameCalls
        /\ closedCalls' = closedCalls]_vars

\* C8 witness: start() was called again on a Closed session (a blocking
\* run leaves the consumer no earlier occasion for a second start).
C8_Witness ==
    /\ session = "Closed"
    /\ mode = "blocking"
    /\ lastOp.op \in {"start", "start_free_threaded"}
    /\ lastOp.result = "NotRestartable"

\* C9: event(handler) registers by role: on_frame_arrived replaces only the
\* frame callback, on_closed only the closed callback, and any other name
\* raises InvalidHandlerRole and leaves both callbacks unchanged.
C9_EventByRole ==
    [][CallStep("event") =>
        IF lastOp'.name = "on_frame_arrived"
        THEN /\ frame_handler' = lastOp'.handler
             /\ closed_handler' = closed_handler
             /\ lastOp'.result = "ok"
        ELSE IF lastOp'.name = "on_closed"
        THEN /\ closed_handler' = lastOp'.handler
             /\ frame_handler' = frame_handler
             /\ lastOp'.result = "ok"
        ELSE /\ lastOp'.result = "InvalidHandlerRole"
             /\ UNCHANGED handlerVars]_vars

\* C9 witness: the closed callback was replaced during a run and the frame
\* callback is still the other handler.
C9_Witness ==
    /\ lastOp.op = "event"
    /\ lastOp.name = "on_closed"
    /\ lastOp.handler = "h2"
    /\ closed_handler = "h2"
    /\ frame_handler = "h1"
    /\ session = "Running"

\* C10: whenever CaptureControl.stop() has returned, is_finished() is true
\* and the closed callback has been invoked and has returned.
C10_StopWaits ==
    lastOp.op = "stop" /\ pcUser = "free" =>
        /\ finished
        /\ closedCalls = 1
        /\ closedReturned
        /\ session = "Closed"

\* C10 witness: stop() has returned from a run that delivered a frame.
C10_Witness ==
    /\ lastOp.op = "stop"
    /\ lastOp.result = "returned"
    /\ pcUser = "free"
    /\ frameCalls > 0

\* C17: the stop flag is monotonic: it starts false, stop() sets it, no
\* step sets it back, and a further stop() leaves the list as the first
\* call left it; once finished is true it is never false again.
C17_StopFlagMonotonic ==
    /\ ~stop_list[1] /\ ~finished
    /\ [](InternalCaptureControl_stop(stop_list) = <<TRUE>>)
    /\ [](stop_list[1] => InternalCaptureControl_stop(stop_list) = stop_list)
    /\ [][stop_list[1] => stop_list'[1]]_vars
    /\ [][finished => finished']_vars

\* C17 witness: stop was requested by the callback and through the handle,
\* and the session has finished.
C17_Witness ==
    /\ cbStopped
    /\ extStopped
    /\ stop_list = <<TRUE>>
    /\ finished

\* C20: with callbacks registered through event() only, both callbacks are
\* registered from a successful start until Closed, and neither
\* on_frame_arrived nor on_closed ever takes its handler-not-set branch.
C20_HandlersRegisteredWhileRunning ==
    session \in {"Running", "Stopping", "Closed"} =>
        /\ frame_handler # None
        /\ closed_handler # None
        /\ ~raised

\* C20 witness: the closed callback, replaced during the run, is running.
C20_Witness ==
    /\ pcEngine = "in_closed_handler"
    /\ lastOp.op = "event"
    /\ lastOp.name = "on_closed"
    /\ mode = "detached"
    /\ delivered > 0

\* ------------------------------------------------------- claims on pixels
\* The bytes of one element of an array: one for uint8, two (low, high) for
\* float16.
ElementBytes(color_format, e) ==
    IF color_format = "rgba16f" THEN <<e % 256, e \div 256>> ELSE <<e>>

\* The bytes of row r of a (height, width, channels) array.
ArrayRowBytes(array, r, color_format) ==
    LET elements == Flat(array[r])
    IN  Flat([i \in 1..Len(elements) |->
                 ElementBytes(color_format, elements[i])])

\* The first n bytes of row r of the source region (rows counted from 1).
SourceRowBytes(buffer, stride, r, n) ==
    [i \in 1..n |-> buffer[(r - 1) * stride + i]]

PushStride == RowPitch(rawFrame.buf_len, rawFrame.height)
PushValid ==
    rawFrame # NoRawFrame /\ PushStride >= rawFrame.width * BytesPerPixel
PullValid ==
    /\ dxgi # NoDxgi
    /\ dxgi.native.bytes_per_row >=
           dxgi.native.width * dxgi.native.bytes_per_pixel

\* C11: when stride >= width * bpp, every row r of the array handed to the
\* consumer (the Frame of push mode, the result of to_numpy in pull mode)
\* is exactly the first width * bpp bytes of source row r, so no pad byte is
\* exposed; push mode builds that array for every such frame.
C11_PadNeverExposed ==
    /\ PushValid /\ ret.op = "on_frame_arrived" => ret.ok
    /\ PushValid /\ handed # NoFrameObject =>
          /\ Len(handed.frame_buffer) = rawFrame.height
          /\ \A r \in 1..rawFrame.height :
                ArrayRowBytes(handed.frame_buffer, r, "bgra8") =
                    SourceRowBytes(rawFrame.buf, PushStride, r,
                                   rawFrame.width * BytesPerPixel)
    /\ PullValid /\ ret.op = "to_numpy" /\ ret.ok =>
          /\ Len(ret.value) = dxgi.native.height
          /\ \A r \in 1..dxgi.native.height :
                ArrayRowBytes(ret.value, r, dxgi.native.color_format) =
                    SourceRowBytes(dxgi.native.buffer,
                                   dxgi.native.bytes_per_row, r,
                                   dxgi.native.width *
                                       dxgi.native.bytes_per_pixel)

\* C11 witness: a padded push-mode frame of two rows and two columns has
\* been turned into the Frame handed to the callback.
C11_Witness ==
    /\ PushValid
    /\ PushStride > rawFrame.width * BytesPerPixel
    /\ rawFrame.width = 2
    /\ rawFrame.height = 2
    /\ handed # NoFrameObject

\* C12: a frame whose stride is below width * bpp is rejected with an error:
\* push mode builds no Frame for it, and to_numpy and to_bgr return no array
\* for it and cache none.
C12_BrokenStrideRejected ==
    /\ rawFrame # NoRawFrame /\ ~PushValid =>
          /\ handed = NoFrameObject
          /\ ret.op = "on_frame_arrived" => ~ret.ok
    /\ dxgi # NoDxgi /\ ~PullValid =>
          /\ ret.op \in {"to_numpy", "to_bgr"} => ~ret.ok
          /\ ~dxgi.numpy_cache.set

\* C12 witness: on_frame_arrived has raised on a push-mode frame whose
\* stride is one byte short.
C12_Witness ==
    /\ rawFrame # NoRawFrame
    /\ PushStride = rawFrame.width * BytesPerPixel - 1
    /\ ret.op = "on_frame_arrived"
    /\ ~ret.ok

\* Component k (0..3) of the source pixel in row y, column x (from 1) of
\* a buffer: a byte, or the 16 bits of a float16.
SourceChannel(buffer, stride, bpp, y, x, k) ==
    LET size == bpp \div 4
        off == (y - 1) * stride + (x - 1) * bpp + k * size
    IN  IF size = 2
        THEN buffer[off + 1] + 256 * buffer[off + 2]
        ELSE buffer[off + 1]

PullChannel(y, x, k) ==
    SourceChannel(dxgi.native.buffer, dxgi.native.bytes_per_row,
                  dxgi.native.bytes_per_pixel, y, x, k)

\* The blue, green and red of source pixel (y, x) as 8-bit values.
PullBgr(y, x) ==
    CASE dxgi.native.color_format = "bgra8" ->
             <<PullChannel(y, x, 0), PullChannel(y, x, 1),
               PullChannel(y, x, 2)>>
      [] dxgi.native.color_format = "rgba8" ->
             <<PullChannel(y, x, 2), PullChannel(y, x, 1),
               PullChannel(y, x, 0)>>
      [] dxgi.native.color_format = "rgba16f" ->
             <<HalfToByte(PullChannel(y, x, 2)),
               HalfToByte(PullChannel(y, x, 1)),
               HalfToByte(PullChannel(y, x, 0))>>

\* C13: to_bgr, with copy or without, returns a (height, width, 3) array
\* whose pixel (y, x) is the blue, green, red of the source pixel (channels
\* 0,1,2 of a bgra8 source, 2,1,0 of an rgba8 or rgba16f source) and never
\* its alpha; convert_to_bgr of a push-mode Frame keeps channels 0,1,2.
C13_BgrOrder ==
    /\ PullValid /\ ret.op = "to_bgr" /\ ret.ok =>
          /\ Len(ret.value) = dxgi.native.height
          /\ \A y \in 1..dxgi.native.height :
                /\ Len(ret.value[y]) = dxgi.native.width
                /\ \A x \in 1..dxgi.native.width :
                      ret.value[y][x] = PullBgr(y, x)
    /\ PushValid /\ ret.op = "convert_to_bgr" =>
          /\ Len(ret.value.frame_buffer) = rawFrame.height
          /\ \A y \in 1..rawFrame.height :
                /\ Len(ret.value.frame_buffer[y]) = rawFrame.width
                /\ \A x \in 1..rawFrame.width :
                      ret.value.frame_buffer[y][x] =
                          [k \in 1..3 |->
                              SourceChannel(rawFrame.buf, PushStride,
                                            BytesPerPixel, y, x, k - 1)]

\* C13 witness: to_bgr(copy=False) has answered for a padded rgba8 frame
\* two pixels wide.
C13_Witness ==
    /\ PullValid
    /\ ret.op = "to_bgr"
    /\ ret.ok
    /\ ~ret.copy
    /\ dxgi.native.color_format = "rgba8"
    /\ dxgi.native.width = 2
    /\ dxgi.native.bytes_per_row >
           dxgi.native.width * dxgi.native.bytes_per_pixel

\* 0 <= x0 < x1 <= width and 0 <= y0 < y1 <= height for args
\* <<x0, y0, x1, y1>>.
ValidCrop(args, width, height) ==
    /\ 0 <= args[1] /\ args[1] < args[3] /\ args[3] <= width
    /\ 0 <= args[2] /\ args[2] < args[4] /\ args[4] <= height

\* C14: crop(x0, y0, x1, y1) fails, returning no frame, whenever
\* 0 <= x0 < x1 <= width and 0 <= y0 < y1 <= height do not both hold.
C14_CropOutOfRangeFails ==
    ret.op = "crop" /\ ~ValidCrop(ret.args, handed.width, handed.height) =>
        ~ret.ok

\* C15: for 0 <= x0 < x1 <= width and 0 <= y0 < y1 <= height, crop returns
\* a frame of width x1 - x0 and height y1 - y0 whose pixel (i, j) is the
\* source's pixel (y0 + i, x0 + j) and whose timestamp is the source's.
C15_CropRegion ==
    ret.op = "crop" /\ ValidCrop(ret.args, handed.width, handed.height) =>
        LET x0 == ret.args[1]
            y0 == ret.args[2]
            x1 == ret.args[3]
            y1 == ret.args[4]
        IN  /\ ret.ok
            /\ ret.value.width = x1 - x0
            /\ ret.value.height = y1 - y0
            /\ ret.value.timespan = rawFrame.timespan
            /\ Len(ret.value.frame_buffer) = y1 - y0
            /\ \A i \in 1..(y1 - y0) :
                  /\ Len(ret.value.frame_buffer[i]) = x1 - x0
                  /\ \A j \in 1..(x1 - x0) :
                        ret.value.frame_buffer[i][j] =
                            [k \in 1..BytesPerPixel |->
                                SourceChannel(rawFrame.buf, PushStride,
                                              BytesPerPixel, y0 + i, x0 + j,
                                              k - 1)]

\* C15 witness: crop(1, 0, 2, 2) has returned the right column of a padded
\* frame of two rows and two columns.
C15_Witness ==
    /\ ret.op = "crop"
    /\ ret.args = <<1, 0, 2, 2>>
    /\ handed.width = 2
    /\ handed.height = 2
    /\ PushStride > rawFrame.width * BytesPerPixel
    /\ ret.value.width = 1
    /\ ret.value.height = 2

\* The pixel grid read from bytes laid out with stride == width * bpp, for
\* a frame of the dimensions and format of self.
Reinterpreted(self, bytes) ==
    Dxgi_frame_array(
        [self EXCEPT !.native.buffer = bytes,
                     !.native.bytes_per_row =
                         self.native.width * self.native.bytes_per_pixel])

\* C16: for every pull-mode frame with stride >= width * bpp, padded ones
\* included, to_bytes() returns height * width * bpp bytes which, read back
\* with stride == width * bpp, give the pixel grid of to_numpy().
C16_BytesRoundTrip ==
    PullValid /\ ret.op = "to_bytes" =>
        /\ Len(ret.value) =
               dxgi.native.height * dxgi.native.width *
                   dxgi.native.bytes_per_pixel
        /\ Reinterpreted(dxgi, ret.value) = Dxgi_frame_array(dxgi)

\* C18: no call of crop, convert_to_bgr, to_numpy, to_bgr or to_bytes, in
\* any sequence, changes the pixel contents, width, height or timestamp of
\* the frame it is called on.
C18_SourceUnchanged ==
    [][/\ rawFrame' = rawFrame
       /\ handed # NoFrameObject => handed' = handed
       /\ dxgi # NoDxgi => dxgi'.native = dxgi.native]_vars

\* C18 witness: a third call in a row has returned on the same push-mode
\* frame, the last one a crop.
C18_Witness ==
    /\ handed # NoFrameObject
    /\ nOps >= 3
    /\ ret.op = "crop"
    /\ ret.value.width = 1

\* C19: on a pull-mode frame the no-copy array is computed from the native
\* buffer at most once; once cached, a no-copy to_numpy or to_bgr reads
\* nothing and leaves the frame as it is; a copy=True request returns memory
\* of its own and leaves the cache as it was.
C19_CacheOnce ==
    /\ [](PullValid => noCopyReads <= 1)
    /\ [][nOps' # nOps /\ ret'.op \in {"to_numpy", "to_bgr"} =>
            /\ ~ret'.copy /\ dxgi.numpy_cache.set =>
                  reads' = reads /\ dxgi' = dxgi /\ ret'.ok
            /\ ~ret'.copy /\ ret'.ok =>
                  /\ dxgi'.numpy_cache.set
                  /\ ret'.op = "to_numpy" =>
                        /\ ret'.alias = "cache"
                        /\ ret'.value = dxgi'.numpy_cache.array
            /\ ret'.copy =>
                  /\ dxgi'.numpy_cache = dxgi.numpy_cache
                  /\ ret'.alias \in {"own", "none"}]_vars

\* C19 witness: of three calls on one frame only one has read the native
\* buffer, and the last, a no-copy to_bgr, was served from the cache.
C19_Witness ==
    /\ PullValid
    /\ nOps >= 3
    /\ reads = 1
    /\ noCopyReads = 1
    /\ ret.op = "to_bgr"
    /\ ~ret.copy
    /\ ret.ok
    /\ dxgi.numpy_cache.set
====
